---------------------------- MODULE Spec2Model ----------------------------
(***************************************************************************)
(* Model of profitable_whale_tracker_bot_table_function.py: the WhaleInfoBot *)
(* "go" command handler, the position fetcher, the report formatter and    *)
(* the message splitter.                                                   *)
(*                                                                         *)
(* Representation.                                                         *)
(*  - A text (Python str) is a sequence of pieces.  A piece is either the  *)
(*    one-character string "\n" or a non-empty string without a newline;   *)
(*    two newline-free pieces are never adjacent (Cat merges them).  The   *)
(*    Python len() of a text is the sum of the Len of its pieces.          *)
(*  - Characters outside ASCII are written with ASCII stand-ins of the     *)
(*    same number of code points (Python len counts code points):          *)
(*      U+1F40B whale "W", U+1F4CA bar chart "#", U+1F4C8 chart up "/",    *)
(*      U+1F680 rocket "^", U+2705 check "Y", U+2796 minus "~",            *)
(*      U+1F4C9 chart down "_", U+26A0 U+FE0F warning "!*",                *)
(*      U+1F53B red triangle "V", U+1F480 skull "X".                       *)
(*  - Upstream numbers are whole numbers (doubles without fraction), so    *)
(*    sizes, prices and values are exact; the divisions of format_value    *)
(*    and pnl_pct are rounded as IEEE 754 doubles are.                     *)
(*  - A command text (update.message.text) is a sequence of code points;   *)
(*    its alphabet is ASCII and the Unicode white space.                   *)
(*  - A JSON field is [t, v]: t = "num" (a number or numeric string, value *)
(*    v), "str" (a non-numeric string), "null", or "missing" (key absent). *)
(***************************************************************************)
EXTENDS Integers, Sequences, FiniteSets, TLC

VARIABLES
    whales,      \* self.whales: sequence of [address, name]
    pc,          \* position of the handler: idle / loop / done / crashed
    raised,      \* the call whose exception ended the handler, "none" if none did
    cmd,         \* the last incoming update: [chat, message_text]
    chat_action, \* the chat action sent for the current command
    i,           \* index of the next whale in get_all_whale_positions' loop
    message,     \* local `message` of get_all_whale_positions (a text)
    total_whales_with_positions,
    total_positions,
    total_value,
    resps,       \* history: the upstream response each whale's request got
    fetched,     \* history: what get_whale_positions returned for each whale
    sent,        \* the payloads passed to reply_text, in order
    f_resp,      \* fetcher run: the upstream response
    f_out,       \* fetcher run: the returned list
    f_pc         \* fetcher run: position

vars == <<whales, pc, raised, cmd, chat_action, i, message, total_whales_with_positions,
          total_positions, total_value, resps, fetched, sent, f_resp, f_out, f_pc>>

---------------------------------------------------------------------------
(* Bounds of the model *)

\* largest number of configured whales
MaxWhales == 2

\* largest number of assetPositions entries in a fetcher run
MaxEntries == 2

---------------------------------------------------------------------------
(* Numbers: floats and their formatting *)

Abs(n) == IF n < 0 THEN 0 - n ELSE n

\* A non-negative double is [m, e]: m is its significand, a sequence of at most
\* 53 bits, most significant first and without leading zeros (<<>> for 0.0);
\* the value is m * 2^-e.

\* the bits of n >= 0
RECURSIVE Bits(_)
Bits(n) == IF n = 0 THEN <<>> ELSE Append(Bits(n \div 2), n % 2)

RECURSIVE BitsToInt(_)
BitsToInt(b) ==
    IF b = <<>> THEN 0 ELSE 2 * BitsToInt(SubSeq(b, 1, Len(b) - 1)) + b[Len(b)]

\* the 4 bits of q < 16, the 8 bits of q < 256
Bits4(q) == [j \in 1..4 |-> (q \div (2 ^ (4 - j))) % 2]
Bits8(q) == [j \in 1..8 |-> (q \div (2 ^ (8 - j))) % 2]

\* some bit of b from position k on is set
AnyOne(b, k) == \E j \in k..Len(b) : b[j] = 1

\* b + 1
Increment(b) ==
    IF \A k \in 1..Len(b) : b[k] = 1 THEN <<1>> \o [k \in 1..Len(b) |-> 0]
    ELSE LET z == CHOOSE k \in 1..Len(b) : b[k] = 0 /\ \A j \in (k + 1)..Len(b) : b[j] = 1
         IN  [k \in 1..Len(b) |-> IF k < z THEN b[k] ELSE IF k = z THEN 1 ELSE 0]

\* IEEE 754 rounding (to nearest, ties to even) of b * 2^-e, plus a non-zero
\* tail below the last bit of b when sticky, to a double
RoundBits(b, e, sticky) ==
    IF Len(b) <= 53 THEN [m |-> b, e |-> e]
    ELSE LET kept == SubSeq(b, 1, 53)
             up == b[54] = 1 /\ (sticky \/ AnyOne(b, 55) \/ b[53] = 1)
             r == IF up THEN Increment(kept) ELSE kept
             e53 == e - (Len(b) - 53)
         IN  IF Len(r) = 54 THEN [m |-> SubSeq(r, 1, 53), e |-> e53 - 1]
             ELSE [m |-> r, e |-> e53]

\* long division of r/d (r < d), 4 quotient bits a step: m = the quotient bits so
\* far without leading zeros, e = the number of them after the binary point
RECURSIVE DivStep(_, _, _, _)
DivStep(r, d, m, e) ==
    IF e >= 0 /\ (r = 0 \/ Len(m) >= 54) THEN RoundBits(m, e, r # 0)
    ELSE LET q == (16 * r) \div d
         IN  DivStep((16 * r) % d, d, IF m = <<>> THEN Bits(q) ELSE m \o Bits4(q), e + 4)

\* the double n / d of two whole-number doubles n >= 0, d > 0 (d below 2^27)
FloatDiv(n, d) == DivStep(n % d, d, Bits(n \div d), 0)

\* the bits of b * k + carry, 8 bits a step from the least significant end
RECURSIVE MulBits(_, _, _)
MulBits(b, k, carry) ==
    IF b = <<>> THEN Bits(carry)
    ELSE LET n == IF Len(b) < 8 THEN Len(b) ELSE 8
             t == BitsToInt(SubSeq(b, Len(b) - n + 1, Len(b))) * k + carry
         IN  IF n < 8 THEN Bits(t)
             ELSE MulBits(SubSeq(b, 1, Len(b) - 8), k, t \div 256) \o Bits8(t % 256)

\* the double v * k for a whole number k > 0
FloatMul(v, k) == RoundBits(MulBits(v.m, k, 0), v.e, FALSE)

\* b * 2^-e rounded to a whole number, ties to even
RoundToInt(b, e) ==
    LET L == Len(b)
        q == IF L > e THEN BitsToInt(SubSeq(b, 1, L - e)) ELSE 0
    IN  IF e = 0 \/ L < e THEN q
        ELSE IF b[L - e + 1] = 0 THEN q
        ELSE IF AnyOne(b, L - e + 2) THEN q + 1
        ELSE IF q % 2 = 0 THEN q ELSE q + 1

\* the digits '{v:.kf}' prints for the double v, as the whole number round(v * 10^k):
\* the format rounds the exact value of the double, ties to even
RoundDouble(v, k) == RoundToInt(MulBits(v.m, 10 ^ k, 0), v.e)

\* -1, 0, 1 as bit sequence a is less than, equal to, greater than b
CmpBits(a, b) ==
    IF Len(a) # Len(b) THEN (IF Len(a) < Len(b) THEN 0 - 1 ELSE 1)
    ELSE IF a = b THEN 0
    ELSE LET k == CHOOSE j \in 1..Len(a) : a[j] # b[j] /\ \A h \in 1..(j - 1) : a[h] = b[h]
         IN  IF a[k] < b[k] THEN 0 - 1 ELSE 1

\* -1, 0, 1 as the double v is less than, equal to, greater than the whole number n >= 0
FloatCmpInt(v, n) ==
    CmpBits(v.m, IF n = 0 THEN <<>> ELSE Bits(n) \o [j \in 1..v.e |-> 0])

\* quotient and remainder of (q * d + r) * 10^k by d
RECURSIVE ScaledDivMod(_, _, _, _)
ScaledDivMod(q, r, d, k) ==
    IF k = 0 THEN [q |-> q, r |-> r]
    ELSE ScaledDivMod(10 * q + (10 * r) \div d, (10 * r) % d, d, k - 1)

\* round(x * 10^k) as '{x:.kf}' prints the double x = n / d.  The double is
\* within 2^-53 (relative) of the quotient, which is either a decimal tie or at
\* least 1/(2d) away from one: off a tie the quotient decides, on a tie the
\* double itself does.
RoundedQuotient(n, d, k) ==
    LET x == ScaledDivMod(n \div d, n % d, d, k)
    IN  IF 2 * x.r < d THEN x.q
        ELSE IF 2 * x.r > d THEN x.q + 1
        ELSE RoundDouble(FloatDiv(n, d), k)

Pad2(n) == IF n < 10 THEN "0" \o ToString(n) ELSE ToString(n)

Pad3(n) == IF n < 10 THEN "00" \o ToString(n)
           ELSE IF n < 100 THEN "0" \o ToString(n) ELSE ToString(n)

\* the ',' format option: thousands separators
RECURSIVE Group(_)
Group(n) == IF n < 1000 THEN ToString(n)
            ELSE Group(n \div 1000) \o "," \o Pad3(n % 1000)

\* '{x:.2f}' of a non-negative number x given in hundredths, h = round(100 x)
Fixed2(h) == ToString(h \div 100) \o "." \o Pad2(h % 100)

\* pnl_pct, the double (num / den) * 100, is kept as [num, den] (den > 0);
\* PctMagnitude is its absolute value
PctMagnitude(p) == FloatMul(FloatDiv(Abs(p.num), p.den), 100)

\* '{abs(pnl_pct):.2f}': the two roundings of pnl_pct leave it within 2^-52
\* (relative) of 100 num / den, so off a decimal tie the exact value decides
FormatPct(p) ==
    LET x == ScaledDivMod(Abs(p.num) \div p.den, Abs(p.num) % p.den, p.den, 4)
    IN  Fixed2(IF 2 * x.r < p.den THEN x.q
               ELSE IF 2 * x.r > p.den THEN x.q + 1
               ELSE RoundDouble(PctMagnitude(p), 2))

\* -1, 0, 1 as pnl_pct is less than, equal to, greater than the whole number k
PctCmp(p, k) ==
    IF 100 * p.num < k * p.den THEN 0 - 1
    ELSE IF 100 * p.num > k * p.den THEN 1
    ELSE LET c == FloatCmpInt(PctMagnitude(p), Abs(k)) IN IF k < 0 THEN 0 - c ELSE c

format_value(value) ==
    IF value >= 1000000 THEN "$" \o Fixed2(RoundedQuotient(value, 1000000, 2)) \o "M"
    ELSE IF value >= 1000 THEN "$" \o ToString(RoundedQuotient(value, 1000, 0)) \o "K"
    ELSE "$" \o ToString(value)

format_price(price) ==
    IF price >= 1000 THEN "$" \o Group(price)
    ELSE IF price >= 1 THEN "$" \o Group(price) \o ".00"
    ELSE "$" \o ToString(price) \o ".0000"

get_pnl_emoji(pnl_pct) ==
    IF PctCmp(pnl_pct, 50) >= 0 THEN "^^^"
    ELSE IF PctCmp(pnl_pct, 20) >= 0 THEN "^^"
    ELSE IF PctCmp(pnl_pct, 10) >= 0 THEN "^"
    ELSE IF PctCmp(pnl_pct, 5) >= 0 THEN "/"
    ELSE IF PctCmp(pnl_pct, 0) > 0 THEN "Y"
    ELSE IF PctCmp(pnl_pct, 0) = 0 THEN "~"
    ELSE IF PctCmp(pnl_pct, 0 - 5) > 0 THEN "_"
    ELSE IF PctCmp(pnl_pct, 0 - 10) > 0 THEN "!*"
    ELSE IF PctCmp(pnl_pct, 0 - 20) > 0 THEN "V"
    ELSE "X"

---------------------------------------------------------------------------
(* Texts *)

NL == "\n"

RECURSIVE Rep(_, _)
Rep(s, n) == IF n = 0 THEN ""
             ELSE IF n % 2 = 1 THEN Rep(s, n - 1) \o s
             ELSE LET h == Rep(s, n \div 2) IN h \o h

\* a newline-free string as a text
Txt(s) == IF s = "" THEN <<>> ELSE <<s>>

\* str + str
Cat(t, u) ==
    IF t = <<>> THEN u
    ELSE IF u = <<>> THEN t
    ELSE IF t[Len(t)] # NL /\ u[1] # NL
         THEN SubSeq(t, 1, Len(t) - 1) \o <<t[Len(t)] \o u[1]>> \o SubSeq(u, 2, Len(u))
         ELSE t \o u

\* one rendered line: the string s followed by "\n"
Line(s) == Cat(Txt(s), <<NL>>)

\* len(str)
RECURSIVE TextLen(_)
TextLen(t) ==
    IF t = <<>> THEN 0
    ELSE IF Len(t) = 1 THEN Len(t[1])
    ELSE LET h == Len(t) \div 2
         IN  TextLen(SubSeq(t, 1, h)) + TextLen(SubSeq(t, h + 1, Len(t)))

---------------------------------------------------------------------------
(* JSON fields and the upstream response *)

Field(t, v) == [t |-> t, v |-> v]
Num(v) == Field("num", v)
NonNumeric == Field("str", 0)
Null == Field("null", 0)
Missing == Field("missing", 0)

\* dict.get(key, default)
Get(field, default) == IF field.t = "missing" THEN default ELSE field

\* float(x) raises TypeError on None and ValueError on a non-numeric string
FloatRaises(x) == x.t # "num"

\* float(x) of a number or numeric string
Float(x) == x.v

\* self.WHITELISTED_TOKENS
WHITELISTED_TOKENS == <<"BTC", "ETH", "SOL">>

\* x in list
InList(x, list) == \E k \in 1..Len(list) : list[k] = x

\* `if position:` - a non-empty dict (a non-empty string is truthy too)
Truthy(e) == e.position = "object" \/ e.position = "string"

\* position.get('coin', '')
CoinOf(e) == e.coin

\* the record appended for a whitelisted entry of nonzero size whose fields parse
MakePosition(e) ==
    LET size == Float(Get(e.szi, Num(0)))
        entry_px == Float(Get(e.entryPx, Num(0)))
        mark_px == Float(Get(e.markPx, Num(entry_px)))
        unrealized_pnl == Float(Get(e.unrealizedPnl, Num(0)))
        pnl_pct == IF entry_px > 0
                   THEN IF size > 0
                        THEN [num |-> mark_px - entry_px, den |-> entry_px]
                        ELSE [num |-> entry_px - mark_px, den |-> entry_px]
                   ELSE [num |-> 0, den |-> 1]
    IN  [coin |-> CoinOf(e),
         side |-> IF size > 0 THEN "LONG" ELSE "SHORT",
         size |-> Abs(size),
         value |-> Abs(size * mark_px),
         entry_price |-> entry_px,
         mark_price |-> mark_px,
         pnl_usd |-> unrealized_pnl,
         pnl_pct |-> pnl_pct]

\* EntryStep without the whitelist test
EntryStepAnyCoin(e) ==
    IF ~Truthy(e) THEN "skip"
    ELSE IF e.position = "string" THEN "raise"
    ELSE IF FloatRaises(Get(e.szi, Num(0))) THEN "raise"
    ELSE IF Float(Get(e.szi, Num(0))) = 0 THEN "skip"
    ELSE IF FloatRaises(Get(e.entryPx, Num(0))) THEN "raise"
    ELSE IF FloatRaises(Get(e.markPx, Get(e.entryPx, Num(0)))) THEN "raise"
    ELSE IF FloatRaises(Get(e.unrealizedPnl, Num(0))) THEN "raise"
    ELSE "append"

\* what one iteration of the loop over asset_positions does with entry e:
\* "raise" (an exception leaves the loop), "skip" or "append"
EntryStep(e) ==
    IF ~Truthy(e) THEN "skip"
    ELSE IF e.position = "string" THEN "raise"
    ELSE IF ~InList(CoinOf(e), WHITELISTED_TOKENS) THEN "skip"
    ELSE IF FloatRaises(Get(e.szi, Num(0))) THEN "raise"
    ELSE IF Float(Get(e.szi, Num(0))) = 0 THEN "skip"
    ELSE IF FloatRaises(Get(e.entryPx, Num(0))) THEN "raise"
    ELSE IF FloatRaises(Get(e.markPx, Get(e.entryPx, Num(0)))) THEN "raise"
    ELSE IF FloatRaises(Get(e.unrealizedPnl, Num(0))) THEN "raise"
    ELSE "append"

\* the loop over asset_positions from entry k on; positions collected so far
RECURSIVE ScanEntries(_, _, _)
ScanEntries(entries, k, positions) ==
    IF k > Len(entries) THEN [exc |-> FALSE, val |-> positions]
    ELSE LET step == EntryStep(entries[k])
         IN  IF step = "raise" THEN [exc |-> TRUE, val |-> <<>>]
             ELSE IF step = "skip" THEN ScanEntries(entries, k + 1, positions)
             ELSE ScanEntries(entries, k + 1, Append(positions, MakePosition(entries[k])))

\* list.sort(key=value, reverse=True) is stable: p goes after every element
\* whose value is >= its own
InsertByValue(sorted, p) ==
    LET n == Cardinality({j \in 1..Len(sorted) : sorted[j].value >= p.value})
    IN  SubSeq(sorted, 1, n) \o <<p>> \o SubSeq(sorted, n + 1, Len(sorted))

RECURSIVE SortByValue(_, _, _)
SortByValue(positions, k, sorted) ==
    IF k > Len(positions) THEN sorted
    ELSE SortByValue(positions, k + 1, InsertByValue(sorted, positions[k]))

\* the body of get_whale_positions' try block: [exc, val], exc = an exception
\* was raised inside it
TryFetch(resp) ==
    IF resp.net # "ok" THEN [exc |-> TRUE, val |-> <<>>]
    ELSE IF resp.status # 200 THEN [exc |-> FALSE, val |-> <<>>]
    ELSE IF resp.body # "object" THEN [exc |-> TRUE, val |-> <<>>]
    ELSE IF resp.assetPositions = "null" THEN [exc |-> TRUE, val |-> <<>>]
    ELSE LET entries == IF resp.assetPositions = "missing" THEN <<>> ELSE resp.entries
             scan == ScanEntries(entries, 1, <<>>)
         IN  IF scan.exc THEN scan
             ELSE [exc |-> FALSE, val |-> SortByValue(scan.val, 1, <<>>)]

\* get_whale_positions without its except clause
get_whale_positions_uncaught(resp) == TryFetch(resp)

\* get_whale_positions: [exc, val]; exc = an exception reaches the caller,
\* val = the returned list
get_whale_positions(resp) ==
    LET r == TryFetch(resp)
    IN  IF r.exc THEN [exc |-> FALSE, val |-> <<>>] ELSE r

---------------------------------------------------------------------------
(* Configuration *)

\* A raw name is a sequence of runs: "\n", one of the characters html.escape
\* rewrites, or a string of other characters.

\* html.escape of one run
EscapeRun(r) ==
    IF r = "&" THEN "&amp;"
    ELSE IF r = "<" THEN "&lt;"
    ELSE IF r = ">" THEN "&gt;"
    ELSE IF r = "\"" THEN "&quot;"
    ELSE IF r = "'" THEN "&#x27;"
    ELSE r

\* html.escape(name): a text
RECURSIVE html_escape(_)
html_escape(name) ==
    IF name = <<>> THEN <<>>
    ELSE Cat(<<EscapeRun(name[1])>>, html_escape(Tail(name)))

\* load_whale_configs over the environment entries WHALE_1_*, WHALE_2_*, ...:
\* env[k] = [address, named, name], the address a text; an empty address ends
\* the list, an unset name defaults to 'Whale k'
RECURSIVE load_whale_configs(_, _)
load_whale_configs(env, k) ==
    IF k > Len(env) \/ env[k].address = <<>> THEN <<>>
    ELSE <<[address |-> env[k].address,
            name |-> IF env[k].named THEN env[k].name
                     ELSE <<"Whale " \o ToString(k)>>]>>
         \o load_whale_configs(env, k + 1)

\* t[:n] of a text
RECURSIVE TakeChars(_, _)
TakeChars(t, n) ==
    IF n = 0 \/ t = <<>> THEN <<>>
    ELSE IF Len(t[1]) <= n THEN <<t[1]>> \o TakeChars(Tail(t), n - Len(t[1]))
    ELSE <<SubSeq(t[1], 1, n)>>

\* t[-n:] of a text
RECURSIVE LastChars(_, _)
LastChars(t, n) ==
    IF n = 0 \/ t = <<>> THEN <<>>
    ELSE LET p == t[Len(t)]
         IN  IF Len(p) <= n THEN LastChars(SubSeq(t, 1, Len(t) - 1), n - Len(p)) \o <<p>>
             ELSE <<SubSeq(p, Len(p) - n + 1, Len(p))>>

\* address[:6]
First6(a) == TakeChars(a, 6)

\* address[-4:]
Last4(a) == LastChars(a, 4)

---------------------------------------------------------------------------
(* get_all_whale_positions *)

\* the header, with timestamp ts
ReportHeader(ts) ==
    Cat(Line("<b>W WHALE POSITIONS REPORT W</b>"),
    Cat(Line("<code>Generated: " \o ts \o " UTC</code>"),
    Cat(Line("<code>" \o Rep("=", 40) \o "</code>"), <<NL>>)))

\* SumValues adding up the sizes instead of the values
RECURSIVE SumSizes(_)
SumSizes(positions) ==
    IF positions = <<>> THEN 0
    ELSE positions[1].size + SumSizes(Tail(positions))

RECURSIVE SumValues(_)
SumValues(positions) ==
    IF positions = <<>> THEN 0
    ELSE positions[1].value + SumValues(Tail(positions))

\* the sign put before both numbers of the P&L line
PnlSign(pos) == IF pos.pnl_usd >= 0 THEN "+" ELSE "-"

\* the text appended for one position
PositionBlock(pos) ==
    Cat(Line("<b>" \o pos.coin \o " " \o pos.side \o "</b> " \o get_pnl_emoji(pos.pnl_pct)),
    Cat(Line("  Size: " \o format_value(pos.value)),
    Cat(Line("  Entry: " \o format_price(pos.entry_price)),
    Cat(Line("  Mark: " \o format_price(pos.mark_price)),
    Cat(Line("  P&L: <b>" \o PnlSign(pos) \o format_value(Abs(pos.pnl_usd)) \o "</b> "
             \o "(<b>" \o PnlSign(pos)
             \o FormatPct(pos.pnl_pct) \o "%</b>)"),
        <<NL>>)))))

RECURSIVE PositionBlocks(_)
PositionBlocks(positions) ==
    IF positions = <<>> THEN <<>>
    ELSE Cat(PositionBlock(positions[1]), PositionBlocks(Tail(positions)))

\* the four header lines of a whale
WhaleHeader(whale, whale_total_value) ==
    Cat(Txt("<b># <a href='https://www.coinglass.com/hyperliquid/"),
    Cat(whale.address,
    Cat(Txt("'>"),
    Cat(html_escape(whale.name),
    Cat(Line("</a></b>"),
    Cat(Txt("<code>Address: "),
    Cat(First6(whale.address),
    Cat(Txt("..."),
    Cat(Last4(whale.address),
    Cat(Line("</code>"),
    Cat(Line("<code>Total Value: " \o format_value(whale_total_value) \o "</code>"),
        Line("<code>" \o Rep("-", 40) \o "</code>"))))))))))))

\* everything one iteration of the loop over self.whales appends for a whale
\* with a non-empty position list
WhaleBlock(whale, positions) ==
    Cat(WhaleHeader(whale, SumValues(positions)),
    Cat(PositionBlocks(positions), <<NL>>))

\* ReportFooter printing the active count as the denominator
ReportFooterActiveOnly(with_positions, n_whales, n_positions, value) ==
    IF with_positions = 0
    THEN Line("<i>No active BTC/ETH/SOL positions found</i>")
    ELSE Cat(Line("<code>" \o Rep("=", 40) \o "</code>"),
         Cat(Line("<b>/ SUMMARY</b>"),
         Cat(Line("Active Whales: " \o ToString(with_positions) \o "/" \o ToString(with_positions)),
         Cat(Line("Total Positions: " \o ToString(n_positions)),
             Line("Total Value: " \o format_value(value))))))

\* ReportFooter appending the summary whatever the count
ReportFooterAlways(with_positions, n_whales, n_positions, value) ==
    Cat(Line("<code>" \o Rep("=", 40) \o "</code>"),
    Cat(Line("<b>/ SUMMARY</b>"),
    Cat(Line("Active Whales: " \o ToString(with_positions) \o "/" \o ToString(n_whales)),
    Cat(Line("Total Positions: " \o ToString(n_positions)),
        Line("Total Value: " \o format_value(value))))))

\* the text appended after the loop
ReportFooter(with_positions, n_whales, n_positions, value) ==
    IF with_positions = 0
    THEN Line("<i>No active BTC/ETH/SOL positions found</i>")
    ELSE Cat(Line("<code>" \o Rep("=", 40) \o "</code>"),
         Cat(Line("<b>/ SUMMARY</b>"),
         Cat(Line("Active Whales: " \o ToString(with_positions) \o "/" \o ToString(n_whales)),
         Cat(Line("Total Positions: " \o ToString(n_positions)),
             Line("Total Value: " \o format_value(value))))))

---------------------------------------------------------------------------
(* split_message and handle_message *)

\* message.split('\n\n') from piece k on: the part up to the next '\n\n',
\* then the parts after it
RECURSIVE SplitParts(_, _)
SplitParts(t, k) ==
    LET found == {j \in k..(Len(t) - 1) : t[j] = NL /\ t[j + 1] = NL}
    IN  IF found = {} THEN <<SubSeq(t, k, Len(t))>>
        ELSE LET j == CHOOSE x \in found : \A y \in found : x <= y
             IN  <<SubSeq(t, k, j - 1)>> \o SplitParts(t, j + 2)

\* SplitLoop starting the next message empty when a part does not fit
RECURSIVE SplitLoopDrops(_, _, _, _)
SplitLoopDrops(parts, k, messages, current_msg) ==
    IF k > Len(parts) THEN [messages |-> messages, current_msg |-> current_msg]
    ELSE IF TextLen(current_msg) + TextLen(parts[k]) + 2 < 4000
         THEN SplitLoopDrops(parts, k + 1, messages,
                             Cat(IF current_msg # <<>> THEN Cat(current_msg, <<NL, NL>>)
                                 ELSE current_msg,
                                 parts[k]))
         ELSE SplitLoopDrops(parts, k + 1,
                             IF current_msg # <<>> THEN Append(messages, current_msg)
                             ELSE messages,
                             <<>>)

\* the loop of split_message from part k on: [messages, current_msg]
RECURSIVE SplitLoop(_, _, _, _)
SplitLoop(parts, k, messages, current_msg) ==
    IF k > Len(parts) THEN [messages |-> messages, current_msg |-> current_msg]
    ELSE IF TextLen(current_msg) + TextLen(parts[k]) + 2 < 4000
         THEN SplitLoop(parts, k + 1, messages,
                        Cat(IF current_msg # <<>> THEN Cat(current_msg, <<NL, NL>>)
                            ELSE current_msg,
                            parts[k]))
         ELSE SplitLoop(parts, k + 1,
                        IF current_msg # <<>> THEN Append(messages, current_msg)
                        ELSE messages,
                        parts[k])

split_message(msg) ==
    LET r == SplitLoop(SplitParts(msg, 1), 1, <<>>, <<>>)
    IN  IF r.current_msg # <<>> THEN Append(r.messages, r.current_msg) ELSE r.messages

\* the payloads handle_message passes to reply_text for a report
Replies(positions_message) ==
    IF TextLen(positions_message) > 4000
    THEN split_message(positions_message)
    ELSE <<positions_message>>

\* the code points str.strip() removes (str.isspace)
WhiteSpace ==
    (9..13) \cup (28..32) \cup {133, 160, 5760} \cup (8192..8202)
    \cup {8232, 8233, 8239, 8287, 12288}

IsSpace(c) == c \in WhiteSpace

RECURSIVE LStrip(_)
LStrip(s) == IF s # <<>> /\ IsSpace(s[1]) THEN LStrip(Tail(s)) ELSE s

RECURSIVE RStrip(_)
RStrip(s) == IF s # <<>> /\ IsSpace(s[Len(s)])
             THEN RStrip(SubSeq(s, 1, Len(s) - 1)) ELSE s

\* str.strip()
Strip(s) == RStrip(LStrip(s))

\* str.lower() of one code point: 'A'..'Z' become 'a'..'z'; no other code
\* point of the alphabet has a lower case
LowerChar(c) == IF c \in 65..90 THEN c + 32 ELSE c

\* str.lower()
Lower(s) == [k \in 1..Len(s) |-> LowerChar(s[k])]

\* the string 'go'
Go == <<103, 111>>

---------------------------------------------------------------------------
(* Inputs *)

Entry(c, s, e, m, u) ==
    [position |-> "object", coin |-> c, szi |-> s, entryPx |-> e, markPx |-> m,
     unrealizedPnl |-> u]

\* an entry whose 'position' is absent, null, {} or a string
Wrapper(kind) ==
    [position |-> kind, coin |-> "", szi |-> Missing, entryPx |-> Missing,
     markPx |-> Missing, unrealizedPnl |-> Missing]

Response(net, status, body, ap, entries) ==
    [net |-> net, status |-> status, body |-> body, assetPositions |-> ap,
     entries |-> entries]

Ok(entries) == Response("ok", 200, "object", "list", entries)

\* responses without a list of entries: requests.post raised, a non-200 status,
\* a body that is not a JSON object, assetPositions null or absent
OtherResponses ==
    {Response("timeout", 0, "invalid", "missing", <<>>),
     Response("refused", 0, "invalid", "missing", <<>>),
     Response("ok", 500, "object", "list", <<>>),
     Response("ok", 200, "invalid", "missing", <<>>),
     Response("ok", 200, "array", "missing", <<>>),
     Response("ok", 200, "object", "null", <<>>),
     Response("ok", 200, "object", "missing", <<>>)}

SeqsUpTo(S, n) == UNION {[1..k -> S] : k \in 0..n}

\* the entries of the fetcher runs
FetchEntries ==
    {Entry(c, Num(s), Num(100), Num(150), Num(10)) :
        c \in {"BTC", "ETH", "SOL", "DOGE", ""}, s \in {2, 0 - 3, 0}}
    \cup {Entry("BTC", Num(2), Num(100), m, Num(10)) :
        m \in {Missing, Null, NonNumeric, Num(50)}}
    \cup {Entry("ETH", Num(0 - 3), e, Num(150), Num(0 - 10)) :
        e \in {Missing, Null, Num(0)}}
    \cup {Entry(c, s, Num(100), Num(150), Num(10)) :
        c \in {"SOL", "DOGE"}, s \in {Missing, Null, NonNumeric}}
    \cup {Entry("SOL", Num(2), Num(100), Num(150), u) : u \in {Missing, Null}}
    \cup {Wrapper(k) : k \in {"missing", "null", "empty", "string"}}

FetchResponses == OtherResponses \cup {Ok(es) : es \in SeqsUpTo(FetchEntries, MaxEntries)}

\* the responses of the report runs
BtcLong == Entry("BTC", Num(2), Num(100), Num(150), Num(100))
EthShort == Entry("ETH", Num(0 - 2), Num(100), Num(150), Num(10))
SolNoMark == Entry("SOL", Num(20000), Num(100), Missing, Num(0 - 5))
EthNullMark == Entry("ETH", Num(1), Num(100), Null, Num(1))
Doge == Entry("DOGE", Num(5), Num(1), Num(1), Num(0))
BtcFlat == Entry("BTC", Num(0), Num(100), Num(150), Num(0))
BtcTie == Entry("BTC", Num(35000), Num(160), Num(67), Num(0 - 3255000))

ReportResponses ==
    {Response("timeout", 0, "invalid", "missing", <<>>),
     Response("ok", 500, "object", "list", <<BtcLong>>),
     Ok(<<Doge, BtcFlat>>),
     Ok(<<BtcLong>>),
     Ok(<<BtcLong, EthNullMark>>),
     Ok(<<EthShort, Doge, SolNoMark>>),
     Ok(<<BtcTie, SolNoMark, EthShort>>)}

\* the environment entries WHALE_k_ADDRESS / WHALE_k_NAME
EnvChoices ==
    {[address |-> <<"0x1234567890abcdef">>, named |-> FALSE, name |-> <<>>],
     [address |-> <<"0xab">>, named |-> TRUE, name |-> <<"<", Rep("a", 3500), ">", "&", "Co">>],
     [address |-> <<"0xfeedfacecafe">>, named |-> TRUE, name |-> <<Rep("x", 4100)>>],
     [address |-> <<"0xfeedfacecafe">>, named |-> TRUE,
      name |-> <<Rep("y", 3930), NL, NL, NL, NL, "z">>],
     [address |-> <<"0xab", NL, NL, "cd">>, named |-> TRUE, name |-> <<Rep("N", 3990)>>],
     [address |-> <<>>, named |-> TRUE, name |-> <<"unused">>]}

\* the environments: any choice for WHALE_1_*, and for the later whales a
\* choice whose name holds no newline and makes no part longer than 4000
Environments ==
    {env \in SeqsUpTo(EnvChoices, MaxWhales) :
        \A k \in 2..Len(env) : \A j \in 1..Len(env[k].name) :
            env[k].name[j] # NL /\ Len(env[k].name[j]) < 4000}

Configs == {load_whale_configs(env, 1) : env \in Environments} \ {<<>>}

\* the chat Filters.chat(int(TELEGRAM_CHAT_ID)) lets through, and another one
Chats == {"TELEGRAM_CHAT_ID", "other"}

\* 'go', ' Go\n', '\x0cGO\xa0', 'g o', 'stop'
Texts ==
    {Go, <<32, 71, 111, 10>>, <<12, 71, 79, 160>>, <<103, 32, 111>>, <<115, 116, 111, 112>>}

\* the update carries a new message or an edited one (update.message is None)
UpdateKinds == {"message", "edited_message"}

\* datetime.now().strftime("%Y-%m-%d %H:%M:%S")
Timestamps == {"2024-01-01 00:00:00"}

---------------------------------------------------------------------------
(* The handler *)

NoResponse == Response("none", 0, "invalid", "missing", <<>>)

Init ==
    /\ whales \in Configs
    /\ pc = "idle"
    /\ raised = "none"
    /\ cmd = [chat |-> "", message_text |-> <<>>]
    /\ chat_action = "none"
    /\ i = 0
    /\ message = <<>>
    /\ total_whales_with_positions = 0
    /\ total_positions = 0
    /\ total_value = 0
    /\ resps = <<>>
    /\ fetched = <<>>
    /\ sent = <<>>
    /\ f_resp = NoResponse
    /\ f_out = <<>>
    /\ f_pc = "off"

\* The dispatcher takes the next update, one with a text.  It drops it unless it
\* comes from the configured chat.  handle_message raises AttributeError on an edited
\* message (update.message is None) and ignores a text that is not 'go'; for
\* 'go' it sends the typing action, which raises when action_ok is false, and
\* get_all_whale_positions starts (header, counters).
ReceiveUpdate(kind, chat, text, ts, action_ok) ==
    /\ pc = "idle"
    /\ IF chat # "TELEGRAM_CHAT_ID"
       THEN /\ cmd' = [chat |-> chat, message_text |-> <<>>]
            /\ chat_action' = "none" /\ message' = <<>> /\ i' = 0
            /\ pc' = "idle" /\ raised' = "none"
       ELSE IF kind # "message"
       THEN /\ cmd' = [chat |-> chat, message_text |-> <<>>]
            /\ chat_action' = "none" /\ message' = <<>> /\ i' = 0
            /\ pc' = "crashed" /\ raised' = "AttributeError"
       ELSE LET message_text == Lower(Strip(text))
            IN  /\ cmd' = [chat |-> chat, message_text |-> message_text]
                /\ IF message_text # Go
                   THEN /\ chat_action' = "none" /\ message' = <<>> /\ i' = 0
                        /\ pc' = "idle" /\ raised' = "none"
                   ELSE IF ~action_ok
                   THEN /\ chat_action' = "none" /\ message' = <<>> /\ i' = 0
                        /\ pc' = "crashed" /\ raised' = "send_chat_action"
                   ELSE /\ chat_action' = "typing"
                        /\ message' = ReportHeader(ts)
                        /\ i' = 1
                        /\ pc' = "loop" /\ raised' = "none"
    /\ UNCHANGED <<whales, total_whales_with_positions, total_positions, total_value,
                   resps, fetched, sent, f_resp, f_out, f_pc>>

\* One iteration of the loop over self.whales: the request for whale i gets
\* the response resp.
FetchWhale(resp) ==
    /\ pc = "loop"
    /\ i <= Len(whales)
    /\ LET out == get_whale_positions(resp)
           positions == out.val
       IN  /\ resps' = Append(resps, resp)
           /\ fetched' = Append(fetched, out)
           /\ IF out.exc
              THEN /\ pc' = "crashed"
                   /\ raised' = "get_whale_positions"
                   /\ UNCHANGED <<i, message, total_whales_with_positions,
                                  total_positions, total_value>>
              ELSE /\ pc' = "loop"
                   /\ raised' = "none"
                   /\ i' = i + 1
                   /\ IF positions = <<>>
                      THEN UNCHANGED <<message, total_whales_with_positions,
                                       total_positions, total_value>>
                      ELSE /\ total_whales_with_positions' = total_whales_with_positions + 1
                           /\ total_value' = total_value + SumValues(positions)
                           /\ total_positions' = total_positions + Len(positions)
                           /\ message' = Cat(message, WhaleBlock(whales[i], positions))
    /\ UNCHANGED <<whales, cmd, chat_action, sent, f_resp, f_out, f_pc>>

\* After the loop: the footer is appended, get_all_whale_positions returns and
\* handle_message replies with the report, split when longer than 4000.  The
\* calls of reply_text all succeed (failing = 0), or the one for payload number
\* `failing` raises and ends the handler.
FinishAndReply ==
    /\ pc = "loop"
    /\ i > Len(whales)
    /\ LET positions_message ==
               Cat(message, ReportFooter(total_whales_with_positions, Len(whales),
                                         total_positions, total_value))
           replies == Replies(positions_message)
       IN  /\ message' = positions_message
           /\ \E failing \in 0..Len(replies) :
                 IF failing = 0
                 THEN sent' = replies /\ pc' = "done" /\ raised' = "none"
                 ELSE /\ sent' = SubSeq(replies, 1, failing)
                      /\ pc' = "crashed" /\ raised' = "reply_text"
    /\ UNCHANGED <<whales, cmd, chat_action, i, total_whales_with_positions,
                   total_positions, total_value, resps, fetched, f_resp, f_out, f_pc>>

\* handle_message has returned or raised (the dispatcher logs the exception):
\* its locals are gone and the dispatcher is ready for the next update.
HandlerEnds ==
    /\ pc \in {"done", "crashed"}
    /\ pc' = "idle"
    /\ raised' = "none"
    /\ cmd' = [chat |-> "", message_text |-> <<>>]
    /\ chat_action' = "none"
    /\ i' = 0
    /\ message' = <<>>
    /\ total_whales_with_positions' = 0
    /\ total_positions' = 0
    /\ total_value' = 0
    /\ resps' = <<>>
    /\ fetched' = <<>>
    /\ sent' = <<>>
    /\ UNCHANGED <<whales, f_resp, f_out, f_pc>>

Next ==
    \/ \E kind \in UpdateKinds, chat \in Chats, text \in Texts, ts \in Timestamps,
          action_ok \in BOOLEAN : ReceiveUpdate(kind, chat, text, ts, action_ok)
    \/ \E resp \in ReportResponses : FetchWhale(resp)
    \/ FinishAndReply
    \/ HandlerEnds

Spec == Init /\ [][Next]_vars

---------------------------------------------------------------------------
(* Fetcher runs: get_whale_positions on one upstream response *)

FetchInit ==
    /\ whales = <<[address |-> <<"0x1234567890abcdef">>, name |-> <<"Whale 1">>]>>
    /\ pc = "idle"
    /\ raised = "none"
    /\ cmd = [chat |-> "", message_text |-> <<>>]
    /\ chat_action = "none"
    /\ i = 0
    /\ message = <<>>
    /\ total_whales_with_positions = 0
    /\ total_positions = 0
    /\ total_value = 0
    /\ resps = <<>>
    /\ fetched = <<>>
    /\ sent = <<>>
    /\ f_resp \in FetchResponses
    /\ f_out = <<>>
    /\ f_pc = "call"

FetchCall ==
    /\ f_pc = "call"
    /\ f_out' = get_whale_positions(f_resp)
    /\ f_pc' = "returned"
    /\ UNCHANGED <<whales, pc, raised, cmd, chat_action, i, message,
                   total_whales_with_positions, total_positions, total_value, resps,
                   fetched, sent, f_resp>>

FetchNext == FetchCall

SpecFetch == FetchInit /\ [][FetchNext]_vars

---------------------------------------------------------------------------
(* Vocabulary of the properties *)

StartsWith(p, prefix) == Len(p) >= Len(prefix) /\ SubSeq(p, 1, Len(prefix)) = prefix

\* the pieces of text t that start with prefix, in order
PiecesWith(t, prefix) == SelectSeq(t, LAMBDA p : StartsWith(p, prefix))

\* the pieces of text t equal to s, in order
PiecesEqual(t, s) == SelectSeq(t, LAMBDA p : p = s)

WhaleLinkPrefix == "<b># <a href='https://www.coinglass.com/hyperliquid/"

\* the indices of the whales for which get_whale_positions returned a non-empty list
Active == {k \in 1..Len(fetched) : fetched[k].val # <<>>}

\* the request failed upstream: requests.post raised, the status was not 200,
\* or the body or a field the code reads could not be parsed
UpstreamFailed(resp) == resp.net # "ok" \/ resp.status # 200 \/ TryFetch(resp).exc

\* the report for the given whales when whale k's position list is lists[k]
RECURSIVE ReportBody(_, _, _)
ReportBody(ws, lists, k) ==
    IF k > Len(ws) THEN <<>>
    ELSE Cat(IF lists[k] = <<>> THEN <<>> ELSE WhaleBlock(ws[k], lists[k]),
             ReportBody(ws, lists, k + 1))

RECURSIVE SumOver(_, _)
SumOver(f, S) ==
    IF S = {} THEN 0
    ELSE LET x == CHOOSE y \in S : TRUE IN f[x] + SumOver(f, S \ {x})

ReportOf(ts, ws, lists) ==
    LET act == {k \in 1..Len(ws) : lists[k] # <<>>}
    IN  Cat(ReportHeader(ts),
        Cat(ReportBody(ws, lists, 1),
            ReportFooter(Cardinality(act), Len(ws),
                         SumOver([k \in 1..Len(ws) |-> Len(lists[k])], act),
                         SumOver([k \in 1..Len(ws) |-> SumValues(lists[k])], act))))

\* "\n\n".join(payloads)
RECURSIVE JoinPayloads(_)
JoinPayloads(payloads) ==
    IF payloads = <<>> THEN <<>>
    ELSE IF Len(payloads) = 1 THEN payloads[1]
    ELSE Cat(payloads[1], Cat(<<NL, NL>>, JoinPayloads(Tail(payloads))))

\* text p has the contiguous pieces b
Contains(p, b) == \E o \in 0..(Len(p) - Len(b)) : SubSeq(p, o + 1, o + Len(b)) = b

\* a whale's block as displayed: its header lines and position blocks, up to
\* the end of its last P&L line
DisplayedBlock(whale, positions) ==
    LET b == WhaleBlock(whale, positions) IN SubSeq(b, 1, Len(b) - 3)

\* the sum of |size| x mark price over a position list
Notional(positions) ==
    SumOver([k \in 1..Len(positions) |-> positions[k].size * Abs(positions[k].mark_price)],
            1..Len(positions))

\* no part of message.split('\n\n') is empty
NoEmptyPart(t) ==
    LET parts == SplitParts(t, 1) IN \A k \in 1..Len(parts) : parts[k] # <<>>

\* split_message(t) has no empty payload and joins back to t
Lossless(t) ==
    LET payloads == split_message(t)
    IN  /\ \A j \in 1..Len(payloads) : payloads[j] # <<>>
        /\ JoinPayloads(payloads) = t

\* every field of the response parses: the request succeeded with a JSON object
\* whose entries are position objects (or have none) with numeric or absent fields
Regular(f) == f.t \in {"num", "missing"}

WellFormed(resp) ==
    /\ resp.net = "ok" /\ resp.status = 200 /\ resp.body = "object"
    /\ resp.assetPositions = "list"
    /\ \A k \in 1..Len(resp.entries) :
          LET e == resp.entries[k]
          IN  /\ e.position \in {"object", "empty", "missing"}
              /\ Regular(e.szi) /\ Regular(e.entryPx) /\ Regular(e.markPx)
              /\ Regular(e.unrealizedPnl)

\* a raw entry with a whitelisted coin and a nonzero signed size
Qualifies(e) ==
    /\ e.position = "object"
    /\ e.coin \in {"BTC", "ETH", "SOL"}
    /\ e.szi.t = "num" /\ e.szi.v # 0

SignedSize(r) == IF r.side = "LONG" THEN r.size ELSE 0 - r.size

---------------------------------------------------------------------------
(* Properties *)

\* C1: whatever the upstream outcome of a whale's request, get_whale_positions
\* raises nothing and returns the empty list when the request failed; the loop
\* runs over the whole whale list, and the report is the one produced when every
\* failing whale simply has no positions.
C1_FailureIsolated ==
    /\ raised # "get_whale_positions"
    /\ \A k \in 1..Len(fetched) :
          /\ ~fetched[k].exc
          /\ UpstreamFailed(resps[k]) => fetched[k].val = <<>>
    /\ pc = "done" =>
          /\ Len(resps) = Len(whales)
          /\ \E ts \in Timestamps :
                message = ReportOf(ts, whales,
                              [k \in 1..Len(whales) |->
                                  IF UpstreamFailed(resps[k]) THEN <<>>
                                  ELSE TryFetch(resps[k]).val])

\* a finished report in which a whale whose request raised comes before a
\* whale that has a block
C1_Witness ==
    /\ pc = "done"
    /\ \E k \in 1..Len(resps) : \E j \in 1..Len(resps) :
          k < j /\ TryFetch(resps[k]).exc /\ fetched[j].val # <<>>

\* C2: every payload handle_message sends in reply to 'go' is at most 4000
\* characters long.
C2_PayloadsWithinLimit == \A k \in 1..Len(sent) : TextLen(sent[k]) <= 4000

\* C3: when the report is split, no whale's block is divided across two
\* payloads: each block lies within one payload.
C3_BlocksUndivided ==
    pc = "done" /\ Len(sent) > 1 =>
        \A k \in Active :
            \E j \in 1..Len(sent) :
                Contains(sent[j], DisplayedBlock(whales[k], fetched[k].val))

\* C4: for a successful, well-formed response the returned records are exactly
\* the entries with a whitelisted coin and nonzero szi, one record each.
C4_RecordsAreQualifyingEntries ==
    f_pc = "returned" /\ WellFormed(f_resp) =>
        LET es == f_resp.entries
            recs == f_out.val
            keys == {<<es[k].coin, es[k].szi.v>> : k \in {j \in 1..Len(es) : Qualifies(es[j])}}
                    \cup {<<recs[k].coin, SignedSize(recs[k])>> : k \in 1..Len(recs)}
        IN  \A key \in keys :
                Cardinality({k \in 1..Len(recs) :
                                <<recs[k].coin, SignedSize(recs[k])>> = key})
                = Cardinality({k \in 1..Len(es) :
                                Qualifies(es[k]) /\ <<es[k].coin, es[k].szi.v>> = key})

\* a well-formed response with a qualifying entry next to one that is dropped
C4_Witness ==
    /\ f_pc = "returned" /\ WellFormed(f_resp)
    /\ Len(f_out.val) >= 1
    /\ Len(f_out.val) < Len(f_resp.entries)

\* the link lines of the whales with a non-empty list, in configuration order
RECURSIVE ExpectedLinks(_)
ExpectedLinks(k) ==
    IF k > Len(whales) THEN <<>>
    ELSE (IF k \in Active THEN <<WhaleHeader(whales[k], 0)[1]>> ELSE <<>>)
         \o ExpectedLinks(k + 1)

\* C5: the whale blocks of a report are the configured whales with a non-empty
\* list, in configuration order; the 'Active Whales' line counts exactly those
\* over the number of configured whales.
C5_BlocksAreActiveWhales ==
    pc = "done" =>
        /\ PiecesWith(message, WhaleLinkPrefix) = ExpectedLinks(1)
        /\ total_whales_with_positions = Cardinality(Active)
        /\ Active # {} =>
              PiecesWith(message, "Active Whales: ")
              = <<"Active Whales: " \o ToString(Cardinality(Active)) \o "/"
                  \o ToString(Len(whales))>>

\* a finished report that omits the first configured whale and shows a later one
C5_Witness ==
    /\ pc = "done"
    /\ Len(whales) >= 2
    /\ 1 \notin Active
    /\ Active # {}

\* the per-whale total lines of the whales with a non-empty list
RECURSIVE ExpectedTotals(_)
ExpectedTotals(k) ==
    IF k > Len(whales) THEN <<>>
    ELSE (IF k \in Active
          THEN <<"<code>Total Value: " \o format_value(Notional(fetched[k].val)) \o "</code>">>
          ELSE <<>>)
         \o ExpectedTotals(k + 1)

\* C6: the summary total is the sum over the included whales of the notional
\* values of their positions, and each whale's displayed total is the sum of
\* its own positions' notional values.
C6_TotalsAreSums ==
    pc = "done" =>
        LET total == SumOver([k \in 1..Len(fetched) |-> Notional(fetched[k].val)], Active)
        IN  /\ total_value = total
            /\ PiecesWith(message, "<code>Total Value: ") = ExpectedTotals(1)
            /\ Active # {} =>
                  PiecesWith(message, "Total Value: ")
                  = <<"Total Value: " \o format_value(total)>>

\* a finished report with two included whales
C6_Witness ==
    /\ pc = "done"
    /\ Cardinality(Active) >= 2
    /\ total_value > 0

\* C7: a report has exactly one ending: with no active whale the 'no active
\* positions' line and neither whale block nor SUMMARY; otherwise the SUMMARY
\* footer and no 'no active positions' line.
C7_ExactlyOneEnding ==
    pc = "done" =>
        LET none == Len(PiecesEqual(message, "<i>No active BTC/ETH/SOL positions found</i>"))
            summary == Len(PiecesEqual(message, "<b>/ SUMMARY</b>"))
            blocks == Len(PiecesWith(message, WhaleLinkPrefix))
        IN  IF Active = {}
            THEN none = 1 /\ summary = 0 /\ blocks = 0
            ELSE none = 0 /\ summary = 1

\* a finished report without any active whale although an upstream response
\* carried entries
C7_Witness ==
    /\ pc = "done"
    /\ Active = {}
    /\ \E k \in 1..Len(resps) : resps[k].status = 200 /\ resps[k].entries # <<>>

\* C8: every whitelisted nonzero-size entry yields a record whose mark price
\* is markPx when that is present with a value and the entry price otherwise
\* (markPx missing or null), with value |szi| x mark price.
C8_MarkPriceFallsBack ==
    (/\ f_pc = "returned"
     /\ f_resp.net = "ok" /\ f_resp.status = 200 /\ f_resp.body = "object"
     /\ f_resp.assetPositions = "list"
     /\ \A k \in 1..Len(f_resp.entries) :
           LET e == f_resp.entries[k]
           IN  /\ e.position = "object"
               /\ e.szi.t = "num" /\ e.entryPx.t = "num" /\ e.unrealizedPnl.t = "num"
               /\ e.markPx.t \in {"num", "missing", "null"})
    => \A k \in 1..Len(f_resp.entries) :
           LET e == f_resp.entries[k]
               mark == IF e.markPx.t = "num" THEN e.markPx.v ELSE e.entryPx.v
           IN  Qualifies(e) =>
                   \E j \in 1..Len(f_out.val) :
                       /\ f_out.val[j].coin = e.coin
                       /\ SignedSize(f_out.val[j]) = e.szi.v
                       /\ f_out.val[j].mark_price = mark
                       /\ f_out.val[j].value = Abs(e.szi.v) * mark

\* the P&L line of a position with the percentage signed by its own pnl_pct
PnlLineSignedByPct(pos) ==
    "  P&L: <b>" \o (IF pos.pnl_usd >= 0 THEN "+" ELSE "-")
    \o format_value(Abs(pos.pnl_usd)) \o "</b> (<b>"
    \o (IF PctCmp(pos.pnl_pct, 0) >= 0 THEN "+" ELSE "-")
    \o FormatPct(pos.pnl_pct) \o "%</b>)"

RECURSIVE ExpectedPnlLines(_)
ExpectedPnlLines(k) ==
    IF k > Len(fetched) THEN <<>>
    ELSE [j \in 1..Len(fetched[k].val) |-> PnlLineSignedByPct(fetched[k].val[j])]
         \o ExpectedPnlLines(k + 1)

\* C9: in every rendered position block the percentage of the P&L line carries
\* the sign of that position's own pnl_pct ('+' when >= 0, '-' when < 0).
C9_PctSignIsOwnSign ==
    pc = "done" => PiecesWith(message, "  P&L: ") = ExpectedPnlLines(1)

\* C10: split_message loses and reorders nothing: its payloads are non-empty
\* and joined with a double newline they give back the report text.
C10_SplitLossless == pc = "done" => Lossless(message)

\* C10 as amended: split_message loses and reorders nothing when no
\* double-newline-separated part of the report text is empty.
C10_SplitLosslessNoEmptyPart ==
    pc = "done" /\ NoEmptyPart(message) => Lossless(message)

\* a report without empty part that was sent as three or more payloads
C10_Witness ==
    /\ pc = "done"
    /\ NoEmptyPart(message)
    /\ Len(sent) >= 3

=============================================================================
